---------------------------- MODULE Spec2Model ----------------------------
(***************************************************************************)
(* OxygenMathLite: Vec2 / Vec3 value types and the Integration2D steppers.  *)
(*                                                                         *)
(* `real` is the default build's type, float (DOUBLE_PRECISION undefined):  *)
(* an IEEE-754 binary32 number, modelled bit for bit as its three fields    *)
(* [s, e, m].  Every arithmetic operator below rounds to nearest, ties to   *)
(* even, once per C++ operation (FLT_EVAL_METHOD 0, no contraction), and    *)
(* produces the IEEE special values (signed zero, infinities, one quiet     *)
(* NaN).                                                                    *)
(***************************************************************************)
EXTENDS Integers, Sequences, FiniteSets, TLC

(***************************************************************************)
(* real = float: IEEE-754 binary32                                         *)
(***************************************************************************)
F(s, e, m) == [s |-> s, e |-> e, m |-> m]

MantBits == 23
ExpBias == 127
ExpSpecial == 255
SubExp == -149

Hidden == 2^MantBits

NaN == F(0, ExpSpecial, 2^(MantBits - 1))
Inf(s) == F(s, ExpSpecial, 0)
Zero(s) == F(s, 0, 0)

IsNaN(f) == f.e = ExpSpecial /\ f.m # 0
IsInf(f) == f.e = ExpSpecial /\ f.m = 0
IsZeroF(f) == f.e = 0 /\ f.m = 0
IsFinite(f) == f.e # ExpSpecial

\* f = (-1)^s * Sig(f) * 2^Exp(f) for a finite f
Sig(f) == IF f.e = 0 THEN f.m ELSE f.m + Hidden
Exp(f) == IF f.e = 0 THEN SubExp ELSE f.e - (ExpBias + MantBits)

Max(a, b) == IF a >= b THEN a ELSE b
XorSign(a, b) == (a + b) % 2

RECURSIVE BitLen(_)
BitLen(n) == IF n = 0 THEN 0 ELSE 1 + BitLen(n \div 2)

\* the float with sign s and value K * 2^q, K <= 2^24 already rounded
Pack(s, K, q) ==
  IF K = 0 THEN Zero(s)
  ELSE LET K2 == IF K = 2 * Hidden THEN Hidden ELSE K
           q2 == IF K = 2 * Hidden THEN q + 1 ELSE q
       IN IF K2 < Hidden THEN F(s, 0, K2)
          ELSE IF q2 + ExpBias + MantBits >= ExpSpecial THEN Inf(s)
          ELSE F(s, q2 + ExpBias + MantBits, K2 - Hidden)

\* round to nearest, ties to even: the float nearest (-1)^s * (M + r) * 2^E,
\* where 0 < r < 1 if sticky and r = 0 otherwise; M < 2^29
Round(s, M, E, sticky) ==
  LET n == BitLen(M)
      sh == Max(n - (MantBits + 1), SubExp - E)
  IN IF M = 0 THEN Zero(s)
     ELSE IF sh <= 0 THEN Pack(s, M * 2^(-sh), E + sh)
     ELSE IF sh > n + 1 THEN Zero(s)
     ELSE LET kept == M \div 2^sh
              rem == M % 2^sh
              half == 2^(sh - 1)
              up == rem > half \/ (rem = half /\ (sticky \/ kept % 2 = 1))
          IN Pack(s, IF up THEN kept + 1 ELSE kept, E + sh)

Neg(a) == IF IsNaN(a) THEN NaN ELSE F(1 - a.s, a.e, a.m)
Fabs(a) == IF IsNaN(a) THEN NaN ELSE F(0, a.e, a.m)

\* a * b
Mul(a, b) ==
  LET s == XorSign(a.s, b.s)
  IN IF IsNaN(a) \/ IsNaN(b) THEN NaN
     ELSE IF IsInf(a) \/ IsInf(b)
          THEN IF IsZeroF(a) \/ IsZeroF(b) THEN NaN ELSE Inf(s)
     ELSE IF IsZeroF(a) \/ IsZeroF(b) THEN Zero(s)
     ELSE LET a1 == Sig(a) \div 4096
              a0 == Sig(a) % 4096
              b1 == Sig(b) \div 4096
              b0 == Sig(b) % 4096
              mid == a1 * b0 + a0 * b1
              low == (mid % 4096) * 4096 + a0 * b0
              lo == low % 16777216
              hi == a1 * b1 + mid \div 4096 + low \div 16777216
              E == Exp(a) + Exp(b)
              k == Max(0, BitLen(hi) - 4)
          IN IF hi = 0 THEN Round(s, lo, E, FALSE)
             ELSE Round(s, hi * 2^(24 - k) + lo \div 2^k, E + k, lo % 2^k # 0)

\* i more quotient bits of r / d, r < d
RECURSIVE LongDiv(_, _, _, _)
LongDiv(r, d, q, i) ==
  IF i = 0 THEN <<q, r>>
  ELSE IF 2 * r >= d THEN LongDiv(2 * r - d, d, 2 * q + 1, i - 1)
  ELSE LongDiv(2 * r, d, 2 * q, i - 1)

\* a / b
Div(a, b) ==
  LET s == XorSign(a.s, b.s)
  IN IF IsNaN(a) \/ IsNaN(b) THEN NaN
     ELSE IF IsInf(a) THEN (IF IsInf(b) THEN NaN ELSE Inf(s))
     ELSE IF IsInf(b) THEN Zero(s)
     ELSE IF IsZeroF(b) THEN (IF IsZeroF(a) THEN NaN ELSE Inf(s))
     ELSE IF IsZeroF(a) THEN Zero(s)
     ELSE LET la == (MantBits + 1) - BitLen(Sig(a))
              lb == (MantBits + 1) - BitLen(Sig(b))
              na == Sig(a) * 2^la
              nb == Sig(b) * 2^lb
              qr == LongDiv(na % nb, nb, na \div nb, 26)
          IN Round(s, qr[1], (Exp(a) - la) - (Exp(b) - lb) - 26, qr[2] # 0)

\* i more root bits: the radicand's next bit pairs are those of N (then zeros)
RECURSIVE SqrtStep(_, _, _, _)
SqrtStep(N, i, q, r) ==
  IF i = -14 THEN <<q, r>>
  ELSE LET pair == IF i > 0 THEN (N \div 4^(i - 1)) % 4 ELSE 0
           r2 == 4 * r + pair
           t == 4 * q + 1
       IN IF r2 >= t THEN SqrtStep(N, i - 1, 2 * q + 1, r2 - t)
          ELSE SqrtStep(N, i - 1, 2 * q, r2)

\* std::sqrt(a)
Sqrt(a) ==
  IF IsNaN(a) THEN NaN
  ELSE IF IsZeroF(a) THEN a
  ELSE IF a.s = 1 THEN NaN
  ELSE IF IsInf(a) THEN a
  ELSE LET la == (MantBits + 1) - BitLen(Sig(a))
           e0 == Exp(a) - la
           odd == e0 % 2 # 0
           N == IF odd THEN Sig(a) * 2^(la + 1) ELSE Sig(a) * 2^la
           e1 == IF odd THEN e0 - 1 ELSE e0
           qr == SqrtStep(N, 13, 0, 0)
       IN Round(0, qr[1], (e1 - 28) \div 2, qr[2] # 0)

\* a + b
Add(a, b) ==
  IF IsNaN(a) \/ IsNaN(b) THEN NaN
  ELSE IF IsInf(a) THEN (IF IsInf(b) /\ a.s # b.s THEN NaN ELSE a)
  ELSE IF IsInf(b) THEN b
  ELSE IF IsZeroF(a) /\ IsZeroF(b) THEN Zero(IF a.s = 1 /\ b.s = 1 THEN 1 ELSE 0)
  ELSE IF IsZeroF(a) THEN b
  ELSE IF IsZeroF(b) THEN a
  ELSE LET x == IF Exp(a) >= Exp(b) THEN a ELSE b
           y == IF Exp(a) >= Exp(b) THEN b ELSE a
           d == Exp(x) - Exp(y)
           sh == d - 4
           A == IF d <= 4 THEN Sig(x) * 2^d ELSE Sig(x) * 16
           B == IF d <= 4 THEN Sig(y)
                ELSE IF sh >= 25 THEN 0 ELSE Sig(y) \div 2^sh
           st == IF d <= 4 THEN FALSE
                 ELSE IF sh >= 25 THEN TRUE ELSE Sig(y) % 2^sh # 0
           E == IF d <= 4 THEN Exp(y) ELSE Exp(x) - 4
       IN IF x.s = y.s THEN Round(x.s, A + B, E, st)
          ELSE IF A > B THEN Round(x.s, IF st THEN A - B - 1 ELSE A - B, E, st)
          ELSE IF A < B THEN Round(y.s, B - A, E, FALSE)
          ELSE Zero(0)

\* a - b
Sub(a, b) == Add(a, Neg(b))

\* the order of the finite and infinite floats, -0 and +0 at the same place
Key(f) == IF f.s = 1 THEN -(f.e * Hidden + f.m) ELSE f.e * Hidden + f.m

\* a < b, a > b, a == b: false as soon as an operand is NaN
Lt(a, b) == ~IsNaN(a) /\ ~IsNaN(b) /\ Key(a) < Key(b)
Gt(a, b) == Lt(b, a)
EqF(a, b) == ~IsNaN(a) /\ ~IsNaN(b) /\ Key(a) = Key(b)

Ge(a, b) == ~IsNaN(a) /\ ~IsNaN(b) /\ Key(a) >= Key(b)

\* the float literals of the sources (0, 1, 0.5f) and of the test scenarios
Zero0 == Zero(0)
One == F(0, 127, 0)
Half == F(0, 126, 0)
Two == F(0, 128, 0)
Three == F(0, 128, 4194304)
Four == F(0, 129, 0)
MinusOne == F(1, 127, 0)
Tiny == F(0, 106, 407485)        \* 5e-7f: below Epsilon
Small == F(0, 116, 201327)       \* 5e-4f: above Epsilon, its square below
Huge == F(0, 193, 2980076)       \* 1e20f: its square overflows
Tenth == F(0, 123, 5033165)      \* 0.1f
MinusG == F(1, 130, 1887437)     \* -9.8f
Lit098 == F(1, 126, 8053064)     \* -0.98f
Lit0098 == F(1, 123, 4764729)    \* -0.098f

\* Constants::Epsilon = 1e-6f
Epsilon == F(0, 107, 407485)

(***************************************************************************)
(* Vec2                                                                    *)
(***************************************************************************)
Vec2(x, y) == [x |-> x, y |-> y]

Vec2_add(a, o) == Vec2(Add(a.x, o.x), Add(a.y, o.y))
Vec2_sub(a, o) == Vec2(Sub(a.x, o.x), Sub(a.y, o.y))
Vec2_mul(a, s) == Vec2(Mul(a.x, s), Mul(a.y, s))
Vec2_addAssign(a, o) == Vec2(Add(a.x, o.x), Add(a.y, o.y))

Vec2_length(a) == Sqrt(Add(Mul(a.x, a.x), Mul(a.y, a.y)))
Vec2_lengthSquared(a) == Add(Mul(a.x, a.x), Mul(a.y, a.y))

\* mutant: only the exactly-zero length is guarded
Vec2_normalize_zeroOnly(a) ==
  LET len == Vec2_length(a)
  IN IF EqF(len, Zero0) THEN Vec2(Zero0, Zero0)
     ELSE Vec2(Div(a.x, len), Div(a.y, len))

Vec2_normalize(a) ==
  LET len == Vec2_length(a)
  IN IF Lt(len, Epsilon) THEN Vec2(Zero0, Zero0)
     ELSE Vec2(Div(a.x, len), Div(a.y, len))

\* the receiver after normalizeSelf()
Vec2_normalizeSelf(a) ==
  LET len == Vec2_length(a)
  IN IF Lt(len, Epsilon) THEN [a EXCEPT !.x = Zero0, !.y = Zero0]
     ELSE [a EXCEPT !.x = Div(a.x, len), !.y = Div(a.y, len)]

Vec2_dot(a, o) == Add(Mul(a.x, o.x), Mul(a.y, o.y))

\* operator*(real, const Vec2 &)
ScalarTimesVec2(scalar, v) == Vec2_mul(v, scalar)

Vec2_project(a, o) ==
  LET len2 == Vec2_lengthSquared(o)
  IN IF Lt(len2, Epsilon) THEN Vec2(Zero0, Zero0)
     ELSE ScalarTimesVec2(Div(Vec2_dot(a, o), len2), o)

\* the header variant of src/unnamed/part_001
Vec2_project_p1(a, other) ==
  LET len == Vec2_length(other)
  IN IF Lt(len, Epsilon) THEN Vec2(Zero0, Zero0)
     ELSE Vec2(Div(other.x, len), Div(other.y, len))

Vec2_isUnit(a) == Lt(Fabs(Sub(Vec2_lengthSquared(a), One)), Epsilon)

\* the header variant of src/unnamed/part_001
Vec2_isUnit_p1(a) == Lt(Sub(Vec2_lengthSquared(a), One), Epsilon)

\* mutant: equality within Epsilon
Vec2_eq_tolerant(a, other) ==
  /\ Lt(Fabs(Sub(a.x, other.x)), Epsilon)
  /\ Lt(Fabs(Sub(a.y, other.y)), Epsilon)

\* operator== and operator!= (src/unnamed/part_000; the Vec2 of
\* src/include/OxygenMathLite.h declares neither)
Vec2_eq(a, other) == EqF(a.x, other.x) /\ EqF(a.y, other.y)
Vec2_ne(a, other) == ~Vec2_eq(a, other)

\* the compound assignments leave the receiver as returned here
Vec2_subAssign(a, o) == Vec2(Sub(a.x, o.x), Sub(a.y, o.y))
Vec2_mulAssign(a, s) == Vec2(Mul(a.x, s), Mul(a.y, s))

Vec2_div(a, s) == Vec2(Div(a.x, s), Div(a.y, s))

\* mutant: a zero divisor is guarded the way normalize guards a short vector
Vec2_divAssign_guarded(a, s) ==
  IF EqF(s, Zero0) THEN Vec2(Zero0, Zero0) ELSE Vec2(Div(a.x, s), Div(a.y, s))

Vec2_divAssign(a, s) == Vec2(Div(a.x, s), Div(a.y, s))

Vec2_clear(a) == Vec2(Zero0, Zero0)
Vec2_isZero(a) == EqF(a.x, Zero0) /\ EqF(a.y, Zero0)


(***************************************************************************)
(* Vec3                                                                    *)
(***************************************************************************)
Vec3(x, y, z) == [x |-> x, y |-> y, z |-> z]

Vec3_mul(a, s) == Vec3(Mul(a.x, s), Mul(a.y, s), Mul(a.z, s))

Vec3_length(a) == Sqrt(Add(Add(Mul(a.x, a.x), Mul(a.y, a.y)), Mul(a.z, a.z)))
Vec3_lengthSquared(a) == Add(Add(Mul(a.x, a.x), Mul(a.y, a.y)), Mul(a.z, a.z))

Vec3_normalize(a) ==
  LET len == Vec3_length(a)
  IN IF Lt(len, Epsilon) THEN Vec3(Zero0, Zero0, Zero0)
     ELSE Vec3(Div(a.x, len), Div(a.y, len), Div(a.z, len))

\* mutant: the receiver is divided by its squared length
Vec3_normalizeSelf_squared(a) ==
  LET len == Vec3_lengthSquared(a)
  IN IF Lt(len, Epsilon) THEN [a EXCEPT !.x = Zero0, !.y = Zero0, !.z = Zero0]
     ELSE [a EXCEPT !.x = Div(a.x, len), !.y = Div(a.y, len), !.z = Div(a.z, len)]

\* the receiver after normalizeSelf()
Vec3_normalizeSelf(a) ==
  LET len == Vec3_length(a)
  IN IF Lt(len, Epsilon) THEN [a EXCEPT !.x = Zero0, !.y = Zero0, !.z = Zero0]
     ELSE [a EXCEPT !.x = Div(a.x, len), !.y = Div(a.y, len), !.z = Div(a.z, len)]

Vec3_dot(a, o) == Add(Add(Mul(a.x, o.x), Mul(a.y, o.y)), Mul(a.z, o.z))

\* mutant: the scalar reaches the first component only
ScalarTimesVec3_xOnly(scalar, v) == Vec3(Mul(v.x, scalar), v.y, v.z)

\* operator*(real, const Vec3 &)
ScalarTimesVec3(scalar, v) == Vec3_mul(v, scalar)

Vec3_project(a, other) ==
  LET lenSq == Vec3_lengthSquared(other)
  IN IF Lt(lenSq, Epsilon) THEN Vec3(Zero0, Zero0, Zero0)
     ELSE ScalarTimesVec3(Div(Vec3_dot(a, other), lenSq), other)

Vec3_isUnit(a) == Lt(Fabs(Sub(Vec3_lengthSquared(a), One)), Epsilon)

Vec3_eq(a, o) == EqF(a.x, o.x) /\ EqF(a.y, o.y) /\ EqF(a.z, o.z)
Vec3_ne(a, o) == ~Vec3_eq(a, o)

Vec3_add(a, o) == Vec3(Add(a.x, o.x), Add(a.y, o.y), Add(a.z, o.z))
Vec3_sub(a, o) == Vec3(Sub(a.x, o.x), Sub(a.y, o.y), Sub(a.z, o.z))
Vec3_addAssign(a, o) == Vec3(Add(a.x, o.x), Add(a.y, o.y), Add(a.z, o.z))
Vec3_subAssign(a, o) == Vec3(Sub(a.x, o.x), Sub(a.y, o.y), Sub(a.z, o.z))
Vec3_mulAssign(a, s) == Vec3(Mul(a.x, s), Mul(a.y, s), Mul(a.z, s))
Vec3_div(a, s) == Vec3(Div(a.x, s), Div(a.y, s), Div(a.z, s))
Vec3_divAssign(a, s) == Vec3(Div(a.x, s), Div(a.y, s), Div(a.z, s))

\* mutant: z is left as it was
Vec3_clear_xy(a) == Vec3(Zero0, Zero0, a.z)

Vec3_clear(a) == Vec3(Zero0, Zero0, Zero0)
Vec3_isZero(a) == EqF(a.x, Zero0) /\ EqF(a.y, Zero0) /\ EqF(a.z, Zero0)


(***************************************************************************)
(* Integration2D.  position, velocity and acceleration are references to   *)
(* caller-owned Vec2 objects of the memory m; the returned value is the    *)
(* memory after the call.                                                  *)
(***************************************************************************)
\* mutant: explicit Euler, the position advanced with the pre-update velocity
Euler_explicit(m, position, velocity, acceleration, dt) ==
  LET m1 == [m EXCEPT ![position] =
                 Vec2_addAssign(m[position], Vec2_mul(m[velocity], dt))]
  IN [m1 EXCEPT ![velocity] =
          Vec2_addAssign(m1[velocity], Vec2_mul(m1[acceleration], dt))]

Euler(m, position, velocity, acceleration, dt) ==
  LET m1 == [m EXCEPT ![velocity] =
                 Vec2_addAssign(m[velocity], Vec2_mul(m[acceleration], dt))]
  IN [m1 EXCEPT ![position] =
          Vec2_addAssign(m1[position], Vec2_mul(m1[velocity], dt))]

\* mutant: the velocity advanced first, the midpoint taken from the new velocity
RK2_velocityFirst(m, position, velocity, acceleration, dt) ==
  LET m1 == [m EXCEPT ![velocity] =
                 Vec2_addAssign(m[velocity], Vec2_mul(m[acceleration], dt))]
      v_mid == Vec2_add(m1[velocity], Vec2_mul(m1[acceleration], Mul(dt, Half)))
  IN [m1 EXCEPT ![position] = Vec2_addAssign(m1[position], Vec2_mul(v_mid, dt))]

\* mutant: the acceleration scaled in place before it is added
RK2_scalesAcceleration(m, position, velocity, acceleration, dt) ==
  LET v_mid == Vec2_add(m[velocity], Vec2_mul(m[acceleration], Mul(dt, Half)))
      m1 == [m EXCEPT ![position] = Vec2_addAssign(m[position], Vec2_mul(v_mid, dt))]
      m2 == [m1 EXCEPT ![acceleration] = Vec2_mul(m1[acceleration], dt)]
  IN [m2 EXCEPT ![velocity] = Vec2_addAssign(m2[velocity], m2[acceleration])]

\* mutant: v_mid is taken a whole step ahead, not half a step
RK2_fullStep(m, position, velocity, acceleration, dt) ==
  LET v_mid == Vec2_add(m[velocity], Vec2_mul(m[acceleration], dt))
      m1 == [m EXCEPT ![position] = Vec2_addAssign(m[position], Vec2_mul(v_mid, dt))]
  IN [m1 EXCEPT ![velocity] =
          Vec2_addAssign(m1[velocity], Vec2_mul(m1[acceleration], dt))]

RK2(m, position, velocity, acceleration, dt) ==
  LET v_mid == Vec2_add(m[velocity], Vec2_mul(m[acceleration], Mul(dt, Half)))
      m1 == [m EXCEPT ![position] = Vec2_addAssign(m[position], Vec2_mul(v_mid, dt))]
  IN [m1 EXCEPT ![velocity] =
          Vec2_addAssign(m1[velocity], Vec2_mul(m1[acceleration], dt))]

(***************************************************************************)
(* cross, reflect, rotate; Mat2; MathTools::Clamp and Geometry2D           *)
(***************************************************************************)
Five == F(0, 129, 2097152)
Six == F(0, 129, 4194304)
\* Constants::PI = 3.14159265358979323846f and Constants::HALF_PI = 0.5f * PI
PI == F(0, 128, 4788187)
HALF_PI == Mul(Half, PI)

\* std::cos and std::sin of a float: the float nearest the cosine / the sine
\* of the argument, tabulated for the angles 0, 1, HALF_PI and PI; an
\* infinite or NaN argument gives NaN
Angles == {Zero0, One, HALF_PI, PI, NaN}

Cos(rads) ==
  CASE rads = Zero0 -> One
    [] rads = One -> F(0, 126, 676160)
    [] rads = HALF_PI -> F(1, 102, 3915054)
    [] rads = PI -> MinusOne
    [] OTHER -> NaN

Sin(rads) ==
  CASE rads = Zero0 -> Zero0
    [] rads = One -> F(0, 126, 5728932)
    [] rads = HALF_PI -> One
    [] rads = PI -> F(1, 103, 3915054)
    [] OTHER -> NaN

Vec2_cross(a, o) == Sub(Mul(a.x, o.y), Mul(a.y, o.x))

Vec2_rotate(a, rads) ==
  Vec2(Sub(Mul(a.x, Cos(rads)), Mul(a.y, Sin(rads))),
       Add(Mul(a.x, Sin(rads)), Mul(a.y, Cos(rads))))

\* 2 * dot(n) * n is (2 * dot(n)) * n
Vec2_reflect(a, normal) ==
  LET n == Vec2_normalize(normal)
  IN Vec2_sub(a, ScalarTimesVec2(Mul(Two, Vec2_dot(a, n)), n))

\* mutant: the y component with its two products exchanged
Vec3_cross_ySwapped(a, o) ==
  Vec3(Sub(Mul(a.y, o.z), Mul(a.z, o.y)),
       Sub(Mul(a.x, o.z), Mul(a.z, o.x)),
       Sub(Mul(a.x, o.y), Mul(a.y, o.x)))

Vec3_cross(a, o) ==
  Vec3(Sub(Mul(a.y, o.z), Mul(a.z, o.y)),
       Sub(Mul(a.z, o.x), Mul(a.x, o.z)),
       Sub(Mul(a.x, o.y), Mul(a.y, o.x)))

Mat2(a, b, c, d) == [m00 |-> a, m01 |-> b, m10 |-> c, m11 |-> d]

\* Mat2::operator*(const Vec2 &)
Mat2_apply(m, v) ==
  Vec2(Add(Mul(m.m00, v.x), Mul(m.m01, v.y)),
       Add(Mul(m.m10, v.x), Mul(m.m11, v.y)))

\* mutant: the product of the transposes, i.e. column by row
Mat2_mul_transposed(m, o) ==
  Mat2(Add(Mul(m.m00, o.m00), Mul(m.m10, o.m01)),
       Add(Mul(m.m01, o.m00), Mul(m.m11, o.m01)),
       Add(Mul(m.m00, o.m10), Mul(m.m10, o.m11)),
       Add(Mul(m.m01, o.m10), Mul(m.m11, o.m11)))

\* Mat2::operator*(const Mat2 &)
Mat2_mul(m, o) ==
  Mat2(Add(Mul(m.m00, o.m00), Mul(m.m01, o.m10)),
       Add(Mul(m.m00, o.m01), Mul(m.m01, o.m11)),
       Add(Mul(m.m10, o.m00), Mul(m.m11, o.m10)),
       Add(Mul(m.m10, o.m01), Mul(m.m11, o.m11)))

\* mutant: the rotation by -rads
Mat2_Rotation_transposed(rads) ==
  LET c == Cos(rads)
      s == Sin(rads)
  IN Mat2(c, s, Neg(s), c)

Mat2_Rotation(rads) ==
  LET c == Cos(rads)
      s == Sin(rads)
  IN Mat2(c, Neg(s), s, c)

Clamp(value, min, max) ==
  IF Lt(value, min) THEN min ELSE IF Gt(value, max) THEN max ELSE value

\* the parameter t of ClosestPointOnLineSegment before it is clamped
ClosestPoint_t(a, b, p) ==
  LET ab == Vec2_sub(b, a)
  IN Div(Vec2_dot(Vec2_sub(p, a), ab), Vec2_lengthSquared(ab))

ClosestPointOnLineSegment(a, b, p) ==
  LET ab == Vec2_sub(b, a)
      t == Clamp(ClosestPoint_t(a, b, p), Zero0, One)
  IN Vec2_add(a, Vec2_mul(ab, t))

(***************************************************************************)
(* The caller: one vector object a that the Vec2 / Vec3 operations are     *)
(* called on, and for Integration2D three Vec2 objects in mem and a step   *)
(* dt.  op, arg, old and ret record the last call: its name, its argument, *)
(* the caller's objects before it and the value it returned.               *)
(***************************************************************************)
VARIABLES a, mem, dt, op, arg, old, ret, calls, hist, pc, rng, loc

vars == <<a, mem, dt, op, arg, old, ret, calls, hist, pc, rng, loc>>

\* what a single-threaded caller without a call history leaves alone: the calls
\* made so far, the threads' positions and locals, the random generator
rest == <<hist, pc, rng, loc>>

Threads == {1, 2}

\* the generator before its construction, a thread's locals outside any call
NoRng == [made |-> FALSE, seed |-> 0, state |-> 0, raced |-> FALSE]
NoLocals == [fn |-> "none", left |-> 0, seen |-> 0]

NoRest ==
  /\ hist = <<>>
  /\ pc = [t \in Threads |-> "idle"]
  /\ rng = NoRng
  /\ loc = [t \in Threads |-> NoLocals]

\* number of sample components a Vec2 / a Vec3 input is built from
NVal == 8
NVal3 == 4
\* number of sample scalars
NScal == 5
\* number of sample components of the integrators' velocity and acceleration
NIntVal == 2
\* number of integrator calls in a run
MaxCalls == 2

Min(p, q) == IF p <= q THEN p ELSE q
Take(seq, n) == {seq[i] : i \in 1..Min(n, Len(seq))}

CompSamples == <<Zero0, One, Tiny, Huge, NaN, Three, Four, Small, Zero(1), Inf(0), MinusOne>>
ScalSamples == <<Two, Zero0, Half, MinusOne, NaN, Inf(0), Tiny, Huge>>
VelSamples == <<One, Zero0, Three, Huge>>
AccSamples == <<Zero0, MinusG, One, NaN>>
PosSamples == <<Zero0, One>>
DtSamples == <<Tenth, Half>>

Vec2Inputs == {Vec2(x, y) : x \in Take(CompSamples, NVal), y \in Take(CompSamples, NVal)}
Vec3Inputs ==
  {Vec3(x, y, z) : x \in Take(CompSamples, NVal3), y \in Take(CompSamples, NVal3),
                   z \in Take(CompSamples, NVal3)}
Scalars == Take(ScalSamples, NScal)

IsVec2(v) == DOMAIN v = {"x", "y"}
IsVec3(v) == DOMAIN v = {"x", "y", "z"}

Objects == {"position", "velocity", "acceleration"}
NoMem == [o \in Objects |-> Vec2(Zero0, Zero0)]

Init ==
  /\ a \in Vec2Inputs \cup Vec3Inputs
  /\ mem = NoMem
  /\ dt = Zero0
  /\ op = "init"
  /\ arg = "none"
  /\ old = a
  /\ ret = "none"
  /\ calls = 0
  /\ NoRest

\* the one call of a run, op(arg) on the freshly constructed receiver a: it
\* returns r and leaves the receiver as a2
Call(name, argument, r, a2) ==
  /\ op = "init"
  /\ op' = name
  /\ arg' = argument
  /\ old' = a
  /\ ret' = r
  /\ a' = a2
  /\ UNCHANGED <<mem, dt, calls, rest>>

Vec2Normalize ==
  /\ IsVec2(a)
  /\ Call("Vec2::normalize", "none", Vec2_normalize(a), a)

Vec2NormalizeSelf ==
  /\ IsVec2(a)
  /\ Call("Vec2::normalizeSelf", "none", "void", Vec2_normalizeSelf(a))

Vec2TimesScalar ==
  /\ IsVec2(a)
  /\ \E s \in Scalars : Call("Vec2::operator*", s, Vec2_mul(a, s), a)

ScalarTimesVec2Call ==
  /\ IsVec2(a)
  /\ \E s \in Scalars : Call("operator*(real,Vec2)", s, ScalarTimesVec2(s, a), a)

Vec2IsUnit ==
  /\ IsVec2(a)
  /\ Call("Vec2::isUnit", "none", Vec2_isUnit(a), a)

Vec2IsUnitP1 ==
  /\ IsVec2(a)
  /\ Call("Vec2::isUnit(part_001)", "none", Vec2_isUnit_p1(a), a)

Vec2Project ==
  /\ IsVec2(a)
  /\ \E o \in Vec2Inputs : Call("Vec2::project", o, Vec2_project(a, o), a)

Vec2ProjectP1 ==
  /\ IsVec2(a)
  /\ \E o \in Vec2Inputs : Call("Vec2::project(part_001)", o, Vec2_project_p1(a, o), a)

Vec2Eq ==
  /\ IsVec2(a)
  /\ \E o \in Vec2Inputs : Call("Vec2::operator==", o, Vec2_eq(a, o), a)

Vec2Ne ==
  /\ IsVec2(a)
  /\ \E o \in Vec2Inputs : Call("Vec2::operator!=", o, Vec2_ne(a, o), a)

Vec3Normalize ==
  /\ IsVec3(a)
  /\ Call("Vec3::normalize", "none", Vec3_normalize(a), a)

Vec3NormalizeSelf ==
  /\ IsVec3(a)
  /\ Call("Vec3::normalizeSelf", "none", "void", Vec3_normalizeSelf(a))

Vec3TimesScalar ==
  /\ IsVec3(a)
  /\ \E s \in Scalars : Call("Vec3::operator*", s, Vec3_mul(a, s), a)

ScalarTimesVec3Call ==
  /\ IsVec3(a)
  /\ \E s \in Scalars : Call("operator*(real,Vec3)", s, ScalarTimesVec3(s, a), a)

Vec3IsUnit ==
  /\ IsVec3(a)
  /\ Call("Vec3::isUnit", "none", Vec3_isUnit(a), a)

Vec3Project ==
  /\ IsVec3(a)
  /\ \E o \in Vec3Inputs : Call("Vec3::project", o, Vec3_project(a, o), a)

Vec3Eq ==
  /\ IsVec3(a)
  /\ \E o \in Vec3Inputs : Call("Vec3::operator==", o, Vec3_eq(a, o), a)

Vec3Ne ==
  /\ IsVec3(a)
  /\ \E o \in Vec3Inputs : Call("Vec3::operator!=", o, Vec3_ne(a, o), a)

Next ==
  \/ Vec2Normalize
  \/ Vec2NormalizeSelf
  \/ Vec2TimesScalar
  \/ ScalarTimesVec2Call
  \/ Vec2IsUnit
  \/ Vec2IsUnitP1
  \/ Vec2Project
  \/ Vec2ProjectP1
  \/ Vec2Eq
  \/ Vec2Ne
  \/ Vec3Normalize
  \/ Vec3NormalizeSelf
  \/ Vec3TimesScalar
  \/ ScalarTimesVec3Call
  \/ Vec3IsUnit
  \/ Vec3Project
  \/ Vec3Eq
  \/ Vec3Ne

Spec == Init /\ [][Next]_vars

(***************************************************************************)
(* The caller of Integration2D: it owns position, velocity, acceleration   *)
(* and dt, and steps position and velocity; the acceleration argument may  *)
(* be any of its objects.                                                  *)
(***************************************************************************)
InitInt ==
  /\ a = Vec2(Zero0, Zero0)
  /\ mem \in {[position |-> Vec2(px, py), velocity |-> Vec2(vx, vy),
               acceleration |-> Vec2(ax, ay)] :
                px \in {PosSamples[1]}, py \in Take(PosSamples, 2),
                vx \in Take(VelSamples, NIntVal), vy \in Take(VelSamples, NIntVal),
                ax \in Take(AccSamples, NIntVal), ay \in Take(AccSamples, NIntVal)}
  /\ dt \in Take(DtSamples, 2)
  /\ op = "init"
  /\ arg = "none"
  /\ old = mem
  /\ ret = "none"
  /\ calls = 0
  /\ NoRest

Refs(acc) == [position |-> "position", velocity |-> "velocity", acceleration |-> acc]

EulerCall ==
  /\ calls < MaxCalls
  /\ \E acc \in Objects :
       /\ mem' = Euler(mem, "position", "velocity", acc, dt)
       /\ arg' = Refs(acc)
  /\ op' = "Euler"
  /\ old' = mem
  /\ ret' = "void"
  /\ calls' = calls + 1
  /\ UNCHANGED <<a, dt, rest>>

RK2Call ==
  /\ calls < MaxCalls
  /\ \E acc \in Objects :
       /\ mem' = RK2(mem, "position", "velocity", acc, dt)
       /\ arg' = Refs(acc)
  /\ op' = "RK2"
  /\ old' = mem
  /\ ret' = "void"
  /\ calls' = calls + 1
  /\ UNCHANGED <<a, dt, rest>>

NextInt ==
  \/ EulerCall
  \/ RK2Call

SpecInt == InitInt /\ [][NextInt]_vars

(***************************************************************************)
(* Integration2D                                                           *)
(***************************************************************************)
\* the value of the acceleration argument when the last call was made
AccBefore == old[arg.acceleration]

EulerLaw ==
  /\ mem.velocity = Vec2_add(old.velocity, Vec2_mul(AccBefore, dt))
  /\ mem.position = Vec2_add(old.position, Vec2_mul(mem.velocity, dt))

\* p = (0,0), v = (1,0), a = (0,-9.8), dt = 0.1
Scenario ==
  /\ old.position = Vec2(Zero0, Zero0)
  /\ old.velocity = Vec2(One, Zero0)
  /\ AccBefore = Vec2(Zero0, MinusG)
  /\ dt = Tenth

\* C1 as stated: one Euler call leaves velocity = v + a*dt and position =
\* p + (v + a*dt)*dt, and from p=(0,0), v=(1,0), a=(0,-9.8), dt=0.1 the step
\* gives velocity (1,-0.98) and position (0.1,-0.098).
C1_EulerScenarioExact ==
  op = "Euler" =>
    /\ EulerLaw
    /\ Scenario => /\ mem.velocity = Vec2(One, Lit098)
                   /\ mem.position = Vec2(Tenth, Lit0098)

\* C1 amended: one Euler call leaves velocity = v + a*dt and position =
\* p + (v + a*dt)*dt, every operation rounded to float, the position advanced
\* with the updated velocity; in the scenario the velocity is (1,-0.98f), the
\* position's x is 0.1f and its y is the float next below -0.098f, within
\* Epsilon of it.
C1_EulerSemiImplicit ==
  op = "Euler" =>
    /\ EulerLaw
    /\ Scenario => /\ mem.velocity = Vec2(One, Lit098)
                   /\ mem.position.x = Tenth
                   /\ mem.position.y = F(1, 123, 4764730)
                   /\ Lt(Fabs(Sub(mem.position.y, Lit0098)), Epsilon)

C1_Witness == op = "Euler" /\ Scenario /\ calls = 1

RK2Law ==
  /\ mem.position =
       Vec2_add(old.position,
                Vec2_mul(Vec2_add(old.velocity, Vec2_mul(AccBefore, Div(dt, Two))), dt))
  /\ mem.velocity = Vec2_add(old.velocity, Vec2_mul(AccBefore, dt))

\* C2 as stated: for every p, v, a, dt one RK2 call leaves position =
\* p + (v + a*(dt/2))*dt and velocity = v + a*dt.
C2_RK2EveryCall == op = "RK2" => RK2Law

\* C2 amended: the same, for every call whose acceleration argument is not
\* the position object itself (RK2 reads the acceleration again after it has
\* advanced the position).
C2_RK2Midpoint == (op = "RK2" /\ arg.acceleration # arg.position) => RK2Law

C2_Witness ==
  /\ op = "RK2"
  /\ arg.acceleration = "acceleration"
  /\ old.acceleration = Vec2(Zero0, MinusG)
  /\ old.velocity = Vec2(One, Zero0)
  /\ mem.position # old.position

\* C3: a call of Euler or RK2 whose acceleration argument is an object other
\* than position and velocity changes position and velocity only: the
\* acceleration object, dt and every other object of the caller keep their
\* values, and nothing is returned.
C3_IntegrationFrame ==
  [][(calls' = calls + 1 /\ arg'.acceleration \notin {arg'.position, arg'.velocity})
       => /\ op' \in {"Euler", "RK2"}
          /\ mem'[arg'.acceleration] = mem[arg'.acceleration]
          /\ \A o \in Objects \ {arg'.position, arg'.velocity} : mem'[o] = mem[o]
          /\ dt' = dt
          /\ a' = a
          /\ ret' = "void"]_vars

C3_Witness ==
  /\ calls = 2
  /\ op = "RK2"
  /\ arg.acceleration = "acceleration"
  /\ mem.acceleration = Vec2(Zero0, MinusG)
  /\ mem.velocity # old.velocity


(***************************************************************************)
(* Vec2 / Vec3                                                             *)
(***************************************************************************)
\* the length the receiver had before the last call
LengthBefore == IF IsVec2(old) THEN Vec2_length(old) ELSE Vec3_length(old)
LengthSquaredBefore ==
  IF IsVec2(old) THEN Vec2_lengthSquared(old) ELSE Vec3_lengthSquared(old)
ZeroLike(v) == IF IsVec2(v) THEN Vec2(Zero0, Zero0) ELSE Vec3(Zero0, Zero0, Zero0)
LengthOf(v) == IF IsVec2(v) THEN Vec2_length(v) ELSE Vec3_length(v)
NonZero(v) == \E c \in DOMAIN v : ~IsZeroF(v[c]) /\ ~IsNaN(v[c])

NormalizeOps == {"Vec2::normalize", "Vec3::normalize"}
NormalizeSelfOps == {"Vec2::normalizeSelf", "Vec3::normalizeSelf"}

\* C4: normalize of a vector whose length is below Epsilon, zero or not,
\* returns the vector of exact zeros (the call has no other outcome).
C4_NormalizeBelowEpsilon ==
  (op \in NormalizeOps /\ Lt(LengthBefore, Epsilon)) => ret = ZeroLike(old)

C4_Witness ==
  /\ op = "Vec3::normalize"
  /\ NonZero(old)
  /\ Lt(LengthBefore, Epsilon)
  /\ ret = Vec3(Zero0, Zero0, Zero0)

\* C5 as stated: for every v with length(v) >= Epsilon the length of
\* normalize(v) is within Epsilon of 1.
C5_NormalizeUnitLength ==
  (op \in NormalizeOps /\ Ge(LengthBefore, Epsilon))
    => Lt(Fabs(Sub(LengthOf(ret), One)), Epsilon)

\* C6: after normalizeSelf the receiver is what normalize would have
\* returned before the call, on both branches; normalize itself leaves the
\* receiver as it was.
C6_NormalizeSelfInPlace ==
  /\ op = "Vec2::normalizeSelf" => a = Vec2_normalize(old)
  /\ op = "Vec3::normalizeSelf" => a = Vec3_normalize(old)
  /\ op \in NormalizeOps => a = old

C6_Witness ==
  /\ op = "Vec3::normalizeSelf"
  /\ Ge(LengthBefore, Epsilon)
  /\ IsFinite(LengthBefore)
  /\ a # old

\* C7: s * v and v * s are the same vector, component for component.
C7_ScalarMulCommutes ==
  /\ op = "operator*(real,Vec2)" => ret = Vec2(Mul(old.x, arg), Mul(old.y, arg))
  /\ op = "Vec2::operator*" => ret = ScalarTimesVec2(arg, old)
  /\ op = "operator*(real,Vec3)" =>
       ret = Vec3(Mul(old.x, arg), Mul(old.y, arg), Mul(old.z, arg))
  /\ op = "Vec3::operator*" => ret = ScalarTimesVec3(arg, old)

C7_Witness ==
  /\ op = "operator*(real,Vec3)"
  /\ arg = Two
  /\ old = Vec3(One, Zero0, Tiny)
  /\ ret.x = Two

IsUnitOps == {"Vec2::isUnit", "Vec2::isUnit(part_001)", "Vec3::isUnit"}

\* C8 as stated: isUnit is true if and only if |lengthSquared - 1| < Epsilon.
C8_IsUnitTwoSided ==
  op \in IsUnitOps => (ret <=> Lt(Fabs(Sub(LengthSquaredBefore, One)), Epsilon))

ProjectOps == {"Vec2::project", "Vec2::project(part_001)", "Vec3::project"}
DotBefore == IF IsVec2(old) THEN Vec2_dot(old, arg) ELSE Vec3_dot(old, arg)
ArgDotArg == IF IsVec2(arg) THEN Vec2_dot(arg, arg) ELSE Vec3_dot(arg, arg)
Scaled(s, v) ==
  IF IsVec2(v) THEN Vec2(Mul(s, v.x), Mul(s, v.y))
  ELSE Vec3(Mul(s, v.x), Mul(s, v.y), Mul(s, v.z))

\* C9 as stated: v.project(onto) is (v.dot(onto) / onto.dot(onto)) * onto when
\* onto.lengthSquared() >= Epsilon, and the zero vector when it is below.
C9_ProjectFormula ==
  op \in ProjectOps =>
    /\ Ge(ArgDotArg, Epsilon) => ret = Scaled(Div(DotBefore, ArgDotArg), arg)
    /\ Lt(ArgDotArg, Epsilon) => ret = ZeroLike(old)

\* two floats that are equal as numbers: neither is NaN, and they are the
\* same float or the two zeros
ExactlyEqual(p, q) ==
  /\ ~IsNaN(p)
  /\ ~IsNaN(q)
  /\ p = q \/ (IsZeroF(p) /\ IsZeroF(q))

NMutVal == 2
\* number of calls in a run of the mutating caller
MaxMut == 3

MutSamples == <<One, Zero0, Huge, NaN>>
MutVec2 == {Vec2(x, y) : x \in Take(MutSamples, NMutVal), y \in Take(MutSamples, NMutVal)}
MutVec3 ==
  {Vec3(x, y, z) : x \in Take(MutSamples, NMutVal), y \in Take(MutSamples, NMutVal),
                   z \in Take(MutSamples, NMutVal)}
\* the right-hand sides of += and -=, and of *=, /= and /
Vec2Operands == {Vec2(One, Two), Vec2(Huge, Zero0)}
Vec3Operands == {Vec3(One, Two, Three), Vec3(Zero0, Huge, Zero0)}
MutScalars == {Two, Zero0, Zero(1)}

InitMut ==
  /\ a \in MutVec2 \cup MutVec3
  /\ mem = NoMem
  /\ dt = Zero0
  /\ op = "init"
  /\ arg = "none"
  /\ old = a
  /\ ret = "none"
  /\ calls = 0
  /\ NoRest

\* one more call name(argument) on the receiver a: it returns r and leaves the
\* receiver as a2
Mutate(name, argument, r, a2) ==
  /\ Len(hist) < MaxMut
  /\ hist' = Append(hist, name)
  /\ op' = name
  /\ arg' = argument
  /\ old' = a
  /\ ret' = r
  /\ a' = a2
  /\ UNCHANGED <<mem, dt, calls, pc, rng, loc>>

Vec2AddAssign ==
  /\ IsVec2(a)
  /\ \E o \in Vec2Operands : Mutate("Vec2::operator+=", o, "this", Vec2_addAssign(a, o))

Vec2SubAssign ==
  /\ IsVec2(a)
  /\ \E o \in Vec2Operands : Mutate("Vec2::operator-=", o, "this", Vec2_subAssign(a, o))

Vec2MulAssign ==
  /\ IsVec2(a)
  /\ \E s \in MutScalars : Mutate("Vec2::operator*=", s, "this", Vec2_mulAssign(a, s))

Vec2DivAssign ==
  /\ IsVec2(a)
  /\ \E s \in MutScalars : Mutate("Vec2::operator/=", s, "this", Vec2_divAssign(a, s))

Vec2Div ==
  /\ IsVec2(a)
  /\ \E s \in MutScalars : Mutate("Vec2::operator/", s, Vec2_div(a, s), a)

Vec2NormalizeSelfMut ==
  /\ IsVec2(a)
  /\ Mutate("Vec2::normalizeSelf", "none", "void", Vec2_normalizeSelf(a))

Vec2Clear ==
  /\ IsVec2(a)
  /\ Mutate("Vec2::clear", "none", "void", Vec2_clear(a))

Vec2IsZero ==
  /\ IsVec2(a)
  /\ Mutate("Vec2::isZero", "none", Vec2_isZero(a), a)

Vec3AddAssign ==
  /\ IsVec3(a)
  /\ \E o \in Vec3Operands : Mutate("Vec3::operator+=", o, "this", Vec3_addAssign(a, o))

Vec3SubAssign ==
  /\ IsVec3(a)
  /\ \E o \in Vec3Operands : Mutate("Vec3::operator-=", o, "this", Vec3_subAssign(a, o))

Vec3MulAssign ==
  /\ IsVec3(a)
  /\ \E s \in MutScalars : Mutate("Vec3::operator*=", s, "this", Vec3_mulAssign(a, s))

Vec3DivAssign ==
  /\ IsVec3(a)
  /\ \E s \in MutScalars : Mutate("Vec3::operator/=", s, "this", Vec3_divAssign(a, s))

Vec3Div ==
  /\ IsVec3(a)
  /\ \E s \in MutScalars : Mutate("Vec3::operator/", s, Vec3_div(a, s), a)

Vec3NormalizeSelfMut ==
  /\ IsVec3(a)
  /\ Mutate("Vec3::normalizeSelf", "none", "void", Vec3_normalizeSelf(a))

Vec3Clear ==
  /\ IsVec3(a)
  /\ Mutate("Vec3::clear", "none", "void", Vec3_clear(a))

Vec3IsZero ==
  /\ IsVec3(a)
  /\ Mutate("Vec3::isZero", "none", Vec3_isZero(a), a)

NextMut ==
  \/ Vec2AddAssign
  \/ Vec2SubAssign
  \/ Vec2MulAssign
  \/ Vec2DivAssign
  \/ Vec2Div
  \/ Vec2NormalizeSelfMut
  \/ Vec2Clear
  \/ Vec2IsZero
  \/ Vec3AddAssign
  \/ Vec3SubAssign
  \/ Vec3MulAssign
  \/ Vec3DivAssign
  \/ Vec3Div
  \/ Vec3NormalizeSelfMut
  \/ Vec3Clear
  \/ Vec3IsZero

SpecMut == InitMut /\ [][NextMut]_vars

(***************************************************************************)
(* clear and isZero                                                        *)
(***************************************************************************)
ClearOps == {"Vec2::clear", "Vec3::clear"}
IsZeroOps == {"Vec2::isZero", "Vec3::isZero"}

\* every component is the float +0 itself
AllPlusZero(v) == \A c \in DOMAIN v : v[c] = Zero0

\* C11: whatever calls came before, clear leaves every component of the
\* receiver exactly 0, and an isZero called right after clear returns true.
C11_ClearThenIsZero ==
  [][/\ (op' \in ClearOps => AllPlusZero(a'))
     /\ (op \in ClearOps /\ op' \in IsZeroOps => ret' = TRUE)]_vars

\* a Vec3 was made non-zero by +=, then cleared, then asked isZero
C11_Witness ==
  /\ hist = <<"Vec3::operator+=", "Vec3::clear", "Vec3::isZero">>
  /\ IsVec3(a)
  /\ ret = TRUE


(***************************************************************************)
(* operator/ and operator/=                                                *)
(***************************************************************************)
DivOps == {"Vec2::operator/", "Vec3::operator/"}
DivAssignOps == {"Vec2::operator/=", "Vec3::operator/="}

\* the quotient vector of the last division: what / returned, what /= left
\* in the receiver
Quotient == IF op \in DivOps THEN ret ELSE a

\* C20: / and /= divide each component by s whatever s is; with s exactly 0
\* (either sign) each component of the quotient is an infinity or a NaN, never
\* a substituted zero; / leaves the receiver as it was.
C20_DivisionUnguarded ==
  op \in DivOps \cup DivAssignOps =>
    /\ DOMAIN Quotient = DOMAIN old
    /\ \A c \in DOMAIN old : Quotient[c] = Div(old[c], arg)
    /\ IsZeroF(arg) => \A c \in DOMAIN old : IsInf(Quotient[c]) \/ IsNaN(Quotient[c])
    /\ op \in DivOps => a = old

\* (1, 0) /= 0 left the receiver (inf, NaN)
C20_Witness ==
  /\ op = "Vec2::operator/="
  /\ IsZeroF(arg)
  /\ old = Vec2(One, Zero0)
  /\ IsInf(a.x)
  /\ IsNaN(a.y)


(***************************************************************************)
(* The caller of cross, reflect, rotate, the Mat2 products and             *)
(* ClosestPointOnLineSegment: one call on a constructed Vec2, Vec3 or      *)
(* Mat2 (for ClosestPointOnLineSegment the object is its first argument).  *)
(***************************************************************************)
\* number of sample components of a Vec2
NGeo == 7
\* number of sample components of a segment's endpoints
NSeg == 4
\* number of sample Vec3 and of sample Mat2
NGeo3 == 4
NMat == 5

GeoSamples == <<Zero0, One, Two, Huge, Three, Half, MinusOne, Tenth, Tiny, NaN>>
GeoVec2 == {Vec2(x, y) : x \in Take(GeoSamples, NGeo), y \in Take(GeoSamples, NGeo)}
SegVec2 == {Vec2(x, y) : x \in Take(GeoSamples, NSeg), y \in Take(GeoSamples, NSeg)}
Vec3Samples ==
  <<Vec3(One, Two, Three), Vec3(Four, Five, Six), Vec3(Huge, Tenth, Zero0),
    Vec3(Zero0, Zero0, Zero0), Vec3(NaN, One, Inf(0)), Vec3(MinusOne, Tiny, Half)>>
GeoVec3 == Take(Vec3Samples, NGeo3)
MatSamples ==
  <<Mat2(Two, Three, Four, Five), Mat2(One, Zero0, Zero0, One),
    Mat2(Zero0, One, Zero0, Zero0), Mat2(Tenth, Three, Huge, Half),
    Mat2(One, Two, MinusOne, Three), Mat2(Inf(0), One, NaN, Zero0),
    Mat2(Tiny, Tenth, Zero(1), Huge)>>
\* matrices built by the constructor and by the Rotation factory
GeoMat2 == Take(MatSamples, NMat) \cup {Mat2_Rotation(rads) : rads \in Angles}

IsMat2(m) == DOMAIN m = {"m00", "m01", "m10", "m11"}

InitGeo ==
  /\ a \in GeoVec2 \cup GeoVec3 \cup GeoMat2
  /\ mem = NoMem
  /\ dt = Zero0
  /\ op = "init"
  /\ arg = "none"
  /\ old = a
  /\ ret = "none"
  /\ calls = 0
  /\ NoRest

Vec2Cross ==
  /\ IsVec2(a)
  /\ \E o \in GeoVec2 : Call("Vec2::cross", o, Vec2_cross(a, o), a)

Vec3Cross ==
  /\ IsVec3(a)
  /\ \E o \in GeoVec3 : Call("Vec3::cross", o, Vec3_cross(a, o), a)

Vec2Reflect ==
  /\ IsVec2(a)
  /\ \E normal \in GeoVec2 : Call("Vec2::reflect", normal, Vec2_reflect(a, normal), a)

Vec2Rotate ==
  /\ IsVec2(a)
  /\ \E rads \in Angles : Call("Vec2::rotate", rads, Vec2_rotate(a, rads), a)

Mat2TimesVec2 ==
  /\ IsMat2(a)
  /\ \E v \in GeoVec2 : Call("Mat2::operator*(Vec2)", v, Mat2_apply(a, v), a)

Mat2TimesMat2 ==
  /\ IsMat2(a)
  /\ \E o \in GeoMat2 : Call("Mat2::operator*(Mat2)", o, Mat2_mul(a, o), a)

ClosestPointCall ==
  /\ a \in SegVec2
  /\ \E b \in SegVec2, p \in GeoVec2 :
       Call("Geometry2D::ClosestPointOnLineSegment", [b |-> b, p |-> p],
            ClosestPointOnLineSegment(a, b, p), a)

NextGeo ==
  \/ Vec2Cross
  \/ Vec3Cross
  \/ Vec2Reflect
  \/ Vec2Rotate
  \/ Mat2TimesVec2
  \/ Mat2TimesMat2
  \/ ClosestPointCall

SpecGeo == InitGeo /\ [][NextGeo]_vars


(***************************************************************************)
(* reflect                                                                 *)
(***************************************************************************)
\* the same real: equal as floats, or both NaN
SameReal(p, q) == (IsNaN(p) /\ IsNaN(q)) \/ EqF(p, q)
SameVec(u, w) == DOMAIN u = DOMAIN w /\ \A c \in DOMAIN u : SameReal(u[c], w[c])

\* the positive factors a normal is scaled by
PosMultiples == {Two, Half, Three, Tiny}

\* C12: reflect normalises the normal itself: for every v and every normal of
\* length >= Epsilon, reflect gives the same result for the normal and for
\* each positive multiple of it, and (1,-1).reflect((0,1)) is (1,1).
C12_ReflectAnyMultiple ==
  op = "Vec2::reflect" =>
    /\ (old = Vec2(One, MinusOne) /\ arg = Vec2(Zero0, One) => ret = Vec2(One, One))
    /\ Ge(Vec2_length(arg), Epsilon) =>
         \A k \in PosMultiples : SameVec(Vec2_reflect(old, Vec2_mul(arg, k)), ret)


(***************************************************************************)
(* cross                                                                   *)
(***************************************************************************)
\* C13: Vec2 cross is the scalar x*o.y - y*o.x, Vec3 cross the vector
\* (y*o.z - z*o.y, z*o.x - x*o.z, x*o.y - y*o.x), each product and
\* difference a float operation, and (1,2,3) x (4,5,6) is (-3, 6, -3).
C13_CrossFormulas ==
  /\ op = "Vec2::cross" => ret = Sub(Mul(old.x, arg.y), Mul(old.y, arg.x))
  /\ op = "Vec3::cross" =>
       /\ ret.x = Sub(Mul(old.y, arg.z), Mul(old.z, arg.y))
       /\ ret.y = Sub(Mul(old.z, arg.x), Mul(old.x, arg.z))
       /\ ret.z = Sub(Mul(old.x, arg.y), Mul(old.y, arg.x))
       /\ (old = Vec3(One, Two, Three) /\ arg = Vec3(Four, Five, Six)
             => ret = Vec3(Neg(Three), Six, Neg(Three)))

C13_Witness ==
  /\ op = "Vec3::cross"
  /\ old = Vec3(One, Two, Three)
  /\ arg = Vec3(Four, Five, Six)
  /\ ret = Vec3(Neg(Three), Six, Neg(Three))


(***************************************************************************)
(* Mat2                                                                    *)
(***************************************************************************)
Identity == Mat2(One, Zero0, Zero0, One)

\* integers small enough that every product and sum below is exact
SmallInts == {Zero0, One, Two, Three, Four, Five, MinusOne}
AllSmallInts(r) == \A c \in DOMAIN r : r[c] \in SmallInts
AllFinite(r) == \A c \in DOMAIN r : IsFinite(r[c])

\* (A * B) * v and A * (B * v) for the last product A * B
Composed(v) == Mat2_apply(ret, v)
Nested(v) == Mat2_apply(old, Mat2_apply(arg, v))

\* C14 as stated: for all A, B and v, (A * B) * v == A * (B * v), and
\* A * Mat2(1,0,0,1) == A.
C14_CompositionEveryMatrix ==
  op = "Mat2::operator*(Mat2)" =>
    /\ \A v \in GeoVec2 : SameVec(Composed(v), Nested(v))
    /\ arg = Identity => SameVec(ret, old)

\* C14: A * B is the row-by-column product, each entry the float sum of two
\* float products, and M * v is (m00*x + m01*y, m10*x + m11*y); for A, B and v
\* of small integers (A * B) * v == A * (B * v), and A * Mat2(1,0,0,1) == A
\* for every A of finite entries.
C14_Composition ==
  /\ op = "Mat2::operator*(Vec2)" =>
       ret = Vec2(Add(Mul(old.m00, arg.x), Mul(old.m01, arg.y)),
                  Add(Mul(old.m10, arg.x), Mul(old.m11, arg.y)))
  /\ op = "Mat2::operator*(Mat2)" =>
       /\ ret.m00 = Add(Mul(old.m00, arg.m00), Mul(old.m01, arg.m10))
       /\ ret.m01 = Add(Mul(old.m00, arg.m01), Mul(old.m01, arg.m11))
       /\ ret.m10 = Add(Mul(old.m10, arg.m00), Mul(old.m11, arg.m10))
       /\ ret.m11 = Add(Mul(old.m10, arg.m01), Mul(old.m11, arg.m11))
       /\ AllSmallInts(old) /\ AllSmallInts(arg) =>
            \A v \in GeoVec2 : AllSmallInts(v) => Vec2_eq(Composed(v), Nested(v))
       /\ arg = Identity /\ AllFinite(old) => SameVec(ret, old)

\* (2,3,4,5) * (0,1,0,0) is (0,2,0,4), and the product in the other order is
\* another matrix
C14_Witness ==
  /\ op = "Mat2::operator*(Mat2)"
  /\ old = Mat2(Two, Three, Four, Five)
  /\ arg = Mat2(Zero0, One, Zero0, Zero0)
  /\ ret = Mat2(Zero0, Two, Zero0, Four)
  /\ Mat2_mul(arg, old) = Mat2(Four, Five, Zero0, Zero0)
  /\ Composed(Vec2(One, Two)) = Vec2(Four, F(0, 130, 0))


(***************************************************************************)
(* Mat2::Rotation and Vec2::rotate                                         *)
(***************************************************************************)
WithinEpsilon(p, q) == Lt(Fabs(Sub(p, q)), Epsilon)

\* C15: Rotation(rads) is [[cos, -sin], [sin, cos]], and Rotation(rads) * v is
\* the very vector v.rotate(rads) returns, for every angle and every v; for
\* rads = HALF_PI and v = (1,0) it is (0,1) to within Epsilon.
C15_RotationIsRotate ==
  /\ op = "Mat2::operator*(Vec2)" =>
       \A rads \in Angles : old = Mat2_Rotation(rads) => ret = Vec2_rotate(arg, rads)
  /\ op = "Vec2::rotate" =>
       /\ Mat2_Rotation(arg) = Mat2(Cos(arg), Neg(Sin(arg)), Sin(arg), Cos(arg))
       /\ ret = Mat2_apply(Mat2_Rotation(arg), old)
       /\ arg = HALF_PI /\ old = Vec2(One, Zero0) =>
            WithinEpsilon(ret.x, Zero0) /\ WithinEpsilon(ret.y, One)

\* Rotation(HALF_PI) * (1,0): x is the float cos(HALF_PI) = -4.37e-8, y is 1
C15_Witness ==
  /\ op = "Mat2::operator*(Vec2)"
  /\ old = Mat2_Rotation(HALF_PI)
  /\ arg = Vec2(One, Zero0)
  /\ ret = Vec2(F(1, 102, 3915054), One)


(***************************************************************************)
(* Geometry2D::ClosestPointOnLineSegment                                   *)
(***************************************************************************)
ClosestOp == "Geometry2D::ClosestPointOnLineSegment"

\* the segment's direction b - a, (p - a).(b - a) and |b - a|^2 of the last call
SegDir == Vec2_sub(arg.b, old)
SegDot == Vec2_dot(Vec2_sub(arg.p, old), SegDir)
SegLenSq == Vec2_lengthSquared(SegDir)

\* q lies between p and r, ends included
Between(p, q, r) == (Ge(q, p) /\ Ge(r, q)) \/ (Ge(p, q) /\ Ge(q, r))
DistSq(u, w) == Vec2_lengthSquared(Vec2_sub(u, w))

\* C16: for a != b the result is a + t*(b-a) with t = (p-a).(b-a) / |b-a|^2
\* clamped to [0,1]: it lies between a and b, is a when the projection falls
\* before a, is b when it falls beyond b (a=(0,0), b=(2,0), p=(3,0.5) gives
\* (2,0)), and neither end of the segment is closer to p.
C16_ClosestPointOnSegment ==
  op = ClosestOp /\ Vec2_ne(old, arg.b) =>
    /\ Between(old.x, ret.x, arg.b.x)
    /\ Between(old.y, ret.y, arg.b.y)
    /\ Ge(Zero0, SegDot) => Vec2_eq(ret, old)
    /\ Ge(SegDot, SegLenSq) => Vec2_eq(ret, arg.b)
    /\ (old = Vec2(Zero0, Zero0) /\ arg.b = Vec2(Two, Zero0) /\ arg.p = Vec2(Three, Half)
          => ret = Vec2(Two, Zero0))
    /\ Ge(DistSq(old, arg.p), DistSq(ret, arg.p))
    /\ Ge(DistSq(arg.b, arg.p), DistSq(ret, arg.p))


\* the parameter t of the last call, before and after MathTools::Clamp
RawT == ClosestPoint_t(old, arg.b, arg.p)
ClampedT == Clamp(RawT, Zero0, One)

\* C17: for a == b the division by the zero squared length gives a non-finite
\* t, and the clamp bounds that t to [0,1] before the result a + t*(b-a) is
\* formed.
C17_DegenerateSegmentClamped ==
  op = ClosestOp /\ Vec2_eq(old, arg.b) =>
    /\ ~IsFinite(RawT)
    /\ Ge(ClampedT, Zero0)
    /\ Ge(One, ClampedT)
    /\ ret = Vec2_add(old, Vec2_mul(SegDir, ClampedT))


(***************************************************************************)
(* MathTools::RandomRange, RandomUnitVector2 and RandomInsideUnitCircle    *)
(* called by two threads.  rng is the function-local static generator:     *)
(* not made until the first call constructs it from a random_device seed,  *)
(* then its seed, its state (the position in the seed's sequence) and      *)
(* whether two accesses have overlapped.  dist(rng) reads the state and    *)
(* writes the advanced state; overlapping accesses are a data race, after  *)
(* which the state written is any state.                                   *)
(***************************************************************************)
\* number of calls the threads start in a run
MaxRngCalls == 2
\* number of seeds random_device may give, and of generator states
NSeeds == 2
RngPeriod == 4

Seeds == 0..(NSeeds - 1)
RngStates == 0..(RngPeriod - 1)
RandomFns == {"RandomRange", "RandomUnitVector2", "RandomInsideUnitCircle"}

\* the number of RandomRange calls a function makes
Draws(fn) == IF fn = "RandomInsideUnitCircle" THEN 2 ELSE 1

\* mutant: dist(rng) waits while another thread is inside it
MayAccess_locked(p, t) == \A u \in Threads \ {t} : p[u] # "write"

\* what dist(rng) waits for before it touches the generator: nothing
MayAccess(p, t) == TRUE

InitRng ==
  /\ a = Vec2(Zero0, Zero0)
  /\ mem = NoMem
  /\ dt = Zero0
  /\ op = "init"
  /\ arg = "none"
  /\ old = a
  /\ ret = "none"
  /\ calls = 0
  /\ NoRest

\* thread t calls one of the three functions
RandomCall(t) ==
  /\ pc[t] = "idle"
  /\ Len(hist) < MaxRngCalls
  /\ \E fn \in RandomFns :
       /\ hist' = Append(hist, fn)
       /\ op' = fn
       /\ loc' = [loc EXCEPT ![t] = [fn |-> fn, left |-> Draws(fn), seen |-> 0]]
  /\ arg' = t
  /\ pc' = [pc EXCEPT ![t] = "static"]
  /\ UNCHANGED <<a, mem, dt, old, ret, calls, rng>>

\* static std::mt19937 rng(std::random_device{}()): constructed by the first
\* call to get here, once
StaticInit(t) ==
  /\ pc[t] = "static"
  /\ IF ~rng.made
       THEN \E seed \in Seeds :
              rng' = [made |-> TRUE, seed |-> seed, state |-> seed, raced |-> FALSE]
       ELSE rng' = rng
  /\ pc' = [pc EXCEPT ![t] = "read"]
  /\ UNCHANGED <<a, mem, dt, op, arg, old, ret, calls, hist, loc>>

\* dist(rng), first half: the generator's state is read
DistRead(t) ==
  /\ pc[t] = "read"
  /\ MayAccess(pc, t)
  /\ loc' = [loc EXCEPT ![t].seen = rng.state]
  /\ rng' = [rng EXCEPT !.raced = @ \/ \E u \in Threads \ {t} : pc[u] = "write"]
  /\ pc' = [pc EXCEPT ![t] = "write"]
  /\ UNCHANGED <<a, mem, dt, op, arg, old, ret, calls, hist>>

\* dist(rng), second half: the advanced state is written and the value drawn
\* from the state read is returned; the function makes its next RandomRange
\* call or returns
DistWrite(t) ==
  /\ pc[t] = "write"
  /\ IF rng.raced
       THEN \E st \in RngStates : rng' = [rng EXCEPT !.state = st]
       ELSE rng' = [rng EXCEPT !.state = (loc[t].seen + 1) % RngPeriod]
  /\ ret' = loc[t].seen
  /\ calls' = calls + 1
  /\ loc' = [loc EXCEPT ![t].left = @ - 1]
  /\ pc' = [pc EXCEPT ![t] = IF loc[t].left = 1 THEN "idle" ELSE "static"]
  /\ UNCHANGED <<a, mem, dt, op, arg, old, hist>>

NextRng ==
  \/ \E t \in Threads : RandomCall(t)
  \/ \E t \in Threads : StaticInit(t)
  \/ \E t \in Threads : DistRead(t)
  \/ \E t \in Threads : DistWrite(t)

SpecRng == InitRng /\ [][NextRng]_vars

\* thread t is inside dist(rng): it has read the state and not yet written it
Inside(t) == pc[t] = "write"

\* C18: the three functions share one generator, made by the first call and
\* advanced by every dist(rng), with no mutual exclusion: a thread about to
\* read or write the generator is never made to wait, whatever the other
\* thread is doing, and as long as no two accesses have overlapped the state
\* has advanced once per completed draw.
C18_SharedGeneratorUnguarded ==
  /\ ~rng.made <=> (calls = 0 /\ \A t \in Threads : pc[t] \in {"idle", "static"})
  /\ \A t \in Threads : pc[t] = "read" => ENABLED DistRead(t)
  /\ \A t \in Threads : pc[t] = "write" => ENABLED DistWrite(t)
  /\ rng.made /\ ~rng.raced /\ (\A t \in Threads : ~Inside(t)) =>
       rng.state = (rng.seed + calls) % RngPeriod

\* both threads are inside dist(rng) at once, having read the same state
C18_Witness ==
  /\ Inside(1)
  /\ Inside(2)
  /\ rng.raced
  /\ loc[1].seen = loc[2].seen


(***************************************************************************)
(* Integration2D called by two threads, each on its own position,          *)
(* velocity and acceleration: mem[t] holds thread t's objects, and the     *)
(* statements of Euler and RK2 of the two threads interleave.  loc[t]      *)
(* holds the thread's local v_mid, the calls it has left to make, and      *)
(* what its objects would hold had its calls run with no other thread.     *)
(***************************************************************************)
\* number of sample sets of objects a thread may own
NParVal == 2
\* number of calls each thread makes
MaxParCalls == 2

ParObjects ==
  <<[position |-> Vec2(Zero0, Zero0), velocity |-> Vec2(One, Zero0),
     acceleration |-> Vec2(Zero0, MinusG)],
    [position |-> Vec2(One, One), velocity |-> Vec2(Zero0, Three),
     acceleration |-> Vec2(One, Tenth)],
    [position |-> Vec2(Zero0, Huge), velocity |-> Vec2(Huge, One),
     acceleration |-> Vec2(Tenth, Tenth)]>>

\* mutant: the acceleration is read through storage shared by the threads
StepVelocity_shared(m, t, h) ==
  [m EXCEPT ![t].velocity = Vec2_addAssign(@, Vec2_mul(m[1].acceleration, h))]

\* velocity += acceleration * dt on thread t's objects
StepVelocity(m, t, h) ==
  [m EXCEPT ![t].velocity = Vec2_addAssign(@, Vec2_mul(m[t].acceleration, h))]

\* position += velocity * dt on thread t's objects
StepPosition(m, t, h) ==
  [m EXCEPT ![t].position = Vec2_addAssign(@, Vec2_mul(m[t].velocity, h))]

\* Vec2 v_mid = velocity + acceleration * (dt * 0.5f)
MidVelocity(m, t, h) ==
  Vec2_add(m[t].velocity, Vec2_mul(m[t].acceleration, Mul(h, Half)))

\* position += v_mid * dt on thread t's objects
StepPositionMid(m, t, v_mid, h) ==
  [m EXCEPT ![t].position = Vec2_addAssign(@, Vec2_mul(v_mid, h))]

InitPar ==
  /\ a = Vec2(Zero0, Zero0)
  /\ mem \in [Threads -> Take(ParObjects, NParVal)]
  /\ dt \in Take(DtSamples, 2)
  /\ op = "init"
  /\ arg = "none"
  /\ old = a
  /\ ret = "none"
  /\ calls = 0
  /\ hist = <<>>
  /\ pc = [t \in Threads |-> "idle"]
  /\ rng = NoRng
  /\ loc = [t \in Threads |->
              [alone |-> mem[t], v_mid |-> Vec2(Zero0, Zero0), left |-> MaxParCalls]]

\* a step of thread t, named name, that leaves the memory as m2 and the
\* thread at position next; hist records whether a step was ever taken while
\* another thread was inside a call
ParStep(t, name, m2, next) ==
  /\ mem' = m2
  /\ pc' = [pc EXCEPT ![t] = next]
  /\ op' = name
  /\ arg' = t
  /\ hist' = IF \E u \in Threads \ {t} : pc[u] # "idle" THEN <<"overlapped">> ELSE hist
  /\ UNCHANGED <<a, dt, old, ret, calls, rng>>

\* thread t calls Euler on its objects: velocity += acceleration * dt
EulerVelocity(t) ==
  /\ pc[t] = "idle"
  /\ loc[t].left > 0
  /\ loc' = [loc EXCEPT ![t].left = @ - 1,
                        ![t].alone = Euler(@, "position", "velocity", "acceleration", dt)]
  /\ ParStep(t, "Euler", StepVelocity(mem, t, dt), "Euler:position")

\* position += velocity * dt, and Euler returns
EulerPosition(t) ==
  /\ pc[t] = "Euler:position"
  /\ UNCHANGED loc
  /\ ParStep(t, "Euler", StepPosition(mem, t, dt), "idle")

\* thread t calls RK2 on its objects: v_mid is computed
RK2Mid(t) ==
  /\ pc[t] = "idle"
  /\ loc[t].left > 0
  /\ loc' = [loc EXCEPT ![t].left = @ - 1,
                        ![t].alone = RK2(@, "position", "velocity", "acceleration", dt),
                        ![t].v_mid = MidVelocity(mem, t, dt)]
  /\ ParStep(t, "RK2", mem, "RK2:position")

\* position += v_mid * dt
RK2Position(t) ==
  /\ pc[t] = "RK2:position"
  /\ UNCHANGED loc
  /\ ParStep(t, "RK2", StepPositionMid(mem, t, loc[t].v_mid, dt), "RK2:velocity")

\* velocity += acceleration * dt, and RK2 returns
RK2Velocity(t) ==
  /\ pc[t] = "RK2:velocity"
  /\ UNCHANGED loc
  /\ ParStep(t, "RK2", StepVelocity(mem, t, dt), "idle")

NextPar ==
  \/ \E t \in Threads : EulerVelocity(t)
  \/ \E t \in Threads : EulerPosition(t)
  \/ \E t \in Threads : RK2Mid(t)
  \/ \E t \in Threads : RK2Position(t)
  \/ \E t \in Threads : RK2Velocity(t)

SpecPar == InitPar /\ [][NextPar]_vars

\* C19: whatever the interleaving, a thread whose call has returned holds in
\* its own position and velocity exactly what its calls would have left had
\* they run alone, and its acceleration is untouched.
C19_IndependentOperands ==
  \A t \in Threads : pc[t] = "idle" => mem[t] = loc[t].alone

\* both threads have made all their calls, on different data, some of their
\* steps interleaved
C19_Witness ==
  /\ \A t \in Threads : pc[t] = "idle" /\ loc[t].left = 0
  /\ hist = <<"overlapped">>
  /\ mem[1].acceleration # mem[2].acceleration
  /\ mem[1].position # mem[2].position
  /\ mem[1] = loc[1].alone
  /\ mem[2] = loc[2].alone


(***************************************************************************)
(* Two integrations from the same start: the caller keeps one copy of      *)
(* position, velocity and acceleration that it steps with Euler and one    *)
(* that it steps with RK2, with the same dt.  old holds the objects both   *)
(* started from, hist the calls made so far.                               *)
(***************************************************************************)
\* number of sample starts, and of steps of each integrator in a run
NStepVal == 2
MaxSteps == 3

StepObjects ==
  <<[position |-> Vec2(Zero0, Zero0), velocity |-> Vec2(One, Zero0),
     acceleration |-> Vec2(Zero0, MinusG)],
    [position |-> Vec2(One, One), velocity |-> Vec2(Zero0, Three),
     acceleration |-> Vec2(One, Two)],
    [position |-> Vec2(Zero0, Tenth), velocity |-> Vec2(Huge, One),
     acceleration |-> Vec2(Tenth, NaN)]>>

RECURSIVE Count(_, _)
Count(seq, name) ==
  IF seq = <<>> THEN 0
  ELSE (IF seq[1] = name THEN 1 ELSE 0) + Count(Tail(seq), name)

InitSteps ==
  /\ a = Vec2(Zero0, Zero0)
  /\ old \in Take(StepObjects, NStepVal)
  /\ mem = [euler |-> old, rk2 |-> old]
  /\ dt \in Take(DtSamples, 2)
  /\ op = "init"
  /\ arg = "none"
  /\ ret = "none"
  /\ calls = 0
  /\ NoRest

EulerStep ==
  /\ Count(hist, "Euler") < MaxSteps
  /\ mem' = [mem EXCEPT !.euler = Euler(@, "position", "velocity", "acceleration", dt)]
  /\ hist' = Append(hist, "Euler")
  /\ op' = "Euler"
  /\ ret' = "void"
  /\ UNCHANGED <<a, dt, arg, old, calls, pc, rng, loc>>

RK2Step ==
  /\ Count(hist, "RK2") < MaxSteps
  /\ mem' = [mem EXCEPT !.rk2 = RK2(@, "position", "velocity", "acceleration", dt)]
  /\ hist' = Append(hist, "RK2")
  /\ op' = "RK2"
  /\ ret' = "void"
  /\ UNCHANGED <<a, dt, arg, old, calls, pc, rng, loc>>

NextSteps ==
  \/ EulerStep
  \/ RK2Step

SpecSteps == InitSteps /\ [][NextSteps]_vars

(***************************************************************************)
(* n steps of Euler and of RK2                                             *)
(***************************************************************************)
\* the number of steps as a real
IntToReal(n) == IF n = 0 THEN Zero0 ELSE <<One, Two, Three, Four, Five, Six>>[n]

StepsOf(name) == Count(hist, name)
\* n * dt for the n steps both integrators have made
Elapsed == Mul(IntToReal(StepsOf("RK2")), dt)

\* v0 + n*a*dt, p0 + v0*(n*dt) + a*(n*dt)^2/2 and n*a*dt^2/2, in float
VelocityClosed == Vec2_add(old.velocity, Vec2_mul(old.acceleration, Elapsed))
PositionClosed ==
  Vec2_add(Vec2_add(old.position, Vec2_mul(old.velocity, Elapsed)),
           Vec2_mul(old.acceleration, Div(Mul(Elapsed, Elapsed), Two)))
PositionGap ==
  Vec2_mul(old.acceleration, Div(Mul(IntToReal(StepsOf("RK2")), Mul(dt, dt)), Two))

ClosedForms ==
  /\ Vec2_eq(mem.euler.velocity, VelocityClosed)
  /\ Vec2_eq(mem.rk2.velocity, VelocityClosed)
  /\ Vec2_eq(mem.rk2.position, PositionClosed)
  /\ Vec2_eq(Vec2_sub(mem.euler.position, mem.rk2.position), PositionGap)

\* a start and a step with which every operation of the steps is exact
ExactStart ==
  /\ dt = Half
  /\ AllSmallInts(old.position)
  /\ AllSmallInts(old.velocity)
  /\ AllSmallInts(old.acceleration)

\* C21 as stated: after n steps of each, from any start, both velocities are
\* v0 + n*a*dt, RK2's position is p0 + v0*(n*dt) + a*(n*dt)^2/2 and Euler's
\* position is n*a*dt^2/2 away from it.
C21_ClosedFormsEveryStart ==
  StepsOf("Euler") = StepsOf("RK2") /\ AllFinite(old.acceleration) /\ AllFinite(old.velocity)
    => ClosedForms

\* C21: after n steps of each the two velocities are the same float for float,
\* from any start; from a start and a step with which every operation is
\* exact the closed forms hold exactly.
C21_ClosedForms ==
  StepsOf("Euler") = StepsOf("RK2") =>
    /\ mem.euler.velocity = mem.rk2.velocity
    /\ ExactStart => ClosedForms

\* three steps of each from p0 = (1,1), v0 = (0,3), a = (1,2), dt = 0.5:
\* velocity (1.5, 6), RK2 at (2.125, 7.75), Euler 0.375 * a further
C21_Witness ==
  /\ StepsOf("Euler") = 3
  /\ StepsOf("RK2") = 3
  /\ ExactStart
  /\ old.acceleration = Vec2(One, Two)
  /\ mem.rk2.velocity = Vec2(F(0, 127, 4194304), Six)
  /\ mem.rk2.position = Vec2(F(0, 128, 524288), F(0, 129, 7864320))
  /\ mem.euler.position = Vec2(F(0, 128, 2097152), F(0, 130, 524288))

=============================================================================
